---- MODULE Spec2Model ----
(***************************************************************************)
(* Token embeddings of matchzoo/embedding.py: the Embedding base class,    *)
(* RandomInitializedEmbedding, PretrainedEmbedding and its two readers,    *)
(* Word2Vec and Glove.  An embedding is the pair (_vocab, _matrix); the    *)
(* operations are the three constructors, __getitem__ (one token or a      *)
(* sequence of tokens), __contains__, the dimension property and the       *)
(* matrix setter.                                                          *)
(*                                                                         *)
(* Text is modelled as a sequence of atoms: an atom is a run of ordinary   *)
(* characters ("a", "0.1"), the double-quote character, the separator or   *)
(* the line end.  A field of a file line is one atom; a field the reader   *)
(* builds from a quoted section is the sequence of the atoms it swallowed. *)
(***************************************************************************)
EXTENDS Integers, Sequences, FiniteSets, TLC

VARIABLES
    pc,        \* "new" before a constructor ran, "ready" after one returned, "failed" after one raised
    cls,       \* the class of the instance
    file,      \* the data lines the pretrained constructor was given (<< >> for the random one)
    _vocab,    \* self._vocab
    _matrix,   \* self._matrix
    replaced,  \* history: the matrix setter has been called
    last       \* the last call and what it returned or raised

vars == <<pc, cls, file, _vocab, _matrix, replaced, last>>

----------------------------------------------------------------------------
(* Bounds of the model *)

MaxLines == 2      \* data lines of an embedding file
MaxDim == 2        \* vector fields on a line, columns of a random matrix
MaxQuery == 2      \* tokens of one __getitem__ call with a sequence

----------------------------------------------------------------------------
(* Atoms and values *)

QuoteChar == "<dq>"    \* the one-character text "
Sp == "<sp>"           \* the separator sep=" "
Nl == "<nl>"           \* the line end

\* First fields the data lines are drawn from: two plain tokens, a spelling of
\* a missing value, and the double quote.
FileTokens == {"a", "b", "null", QuoteChar}

\* Tokens the queries are drawn from.
QueryTokens == FileTokens \cup {"oov"}
ManyTokens == {"a", "b"}

\* pandas' default na_values, as far as FileTokens spells them.
NaValues == {"null", "NA", "nan", "NaN", "NULL", ""}

ValueText ==
    <<"0.1", "0.2", "0.3", "0.4", "0.5", "0.6", "0.7", "0.8", "0.9", "1.0", "1.1", "1.2">>
NumericText == {ValueText[k] : k \in DOMAIN ValueText} \cup {"7"}

Float(n) == [nan |-> FALSE, tenths |-> n]
NaN == [nan |-> TRUE, tenths |-> 0]

\* float("0.3") = 0.3, in tenths
ParseFloat(s) ==
    IF s = "7" THEN Float(70)
    ELSE Float(CHOOSE k \in DOMAIN ValueText : ValueText[k] = s)

\* The vector field j of data line i of the files the model reads.
CellText(i, j) == ValueText[(((i - 1) * (MaxDim + 1) + (j - 1)) % Len(ValueText)) + 1]

\* A data line: a first field and w vector fields.
Line(tok, i, w) == <<tok>> \o [j \in 1..w |-> CellText(i, j)]

\* The numbers of vector fields a data line can have: MaxDim, or one fewer.
Widths == {MaxDim - 1, MaxDim} \ {0}

\* The files: up to MaxLines data lines, each with a first field and vector fields.
Files ==
    UNION { { [i \in 1..n |-> Line(tk[i], i, wd[i])] :
                tk \in [1..n -> FileTokens], wd \in [1..n -> Widths] } :
            n \in 0..MaxLines }

\* The header line "<vocab_size> <dimension>" of a word2vec file.
HeaderLine == <<"7", "7">>

----------------------------------------------------------------------------
(* Labels and arrays *)

StrLabel(text) == [kind |-> "str", text |-> text, num |-> NaN]
NumLabel(f) == [kind |-> "float", text |-> << >>, num |-> f]

NoneMatrix == [type |-> "None", index |-> << >>, rows |-> << >>, ncols |-> 0]
NdArray(rows, ncols) == [type |-> "ndarray", index |-> << >>, rows |-> rows, ncols |-> ncols]
DataFrame(index, rows, ncols) == [type |-> "DataFrame", index |-> index, rows |-> rows, ncols |-> ncols]

Returned(op, arg) ==
    [op |-> op, arg |-> arg, status |-> "ok", key |-> "", ndim |-> 0, rows |-> << >>,
     bool |-> FALSE, int |-> 0]
Raised(op, arg, err, key) == [Returned(op, arg) EXCEPT !.status = err, !.key = key]

----------------------------------------------------------------------------
(* pandas.read_table(file_path, sep=" ", index_col=0, header=None, ...) *)

\* The text of a file: the fields of each line joined by the separator, each
\* line closed by a line end.
RECURSIVE JoinFields(_)
JoinFields(fields) ==
    IF Len(fields) = 1 THEN fields
    ELSE <<Head(fields), Sp>> \o JoinFields(Tail(fields))

RECURSIVE FileText(_)
FileText(lines) ==
    IF lines = << >> THEN << >>
    ELSE JoinFields(Head(lines)) \o <<Nl>> \o FileText(Tail(lines))

\* skiprows=n: the first n lines of the file are not read.
SkipRows(lines, n) ==
    IF Len(lines) <= n THEN << >> ELSE SubSeq(lines, n + 1, Len(lines))

\* The reader's tokenizer, one atom at a time.  st is its state, field the
\* text of the field being read, line the fields of the line being read,
\* done the lines read.  With quoting, a double quote opening a field starts
\* a quoted section that runs to the next double quote, separators and line
\* ends included; the end of the file inside one is an error.  Without
\* (csv.QUOTE_NONE) a double quote is an ordinary character.
RECURSIVE Tokenize(_, _, _, _, _, _)
Tokenize(text, quoting, st, field, line, done) ==
    IF text = << >>
    THEN IF st = "IN_QUOTED_FIELD"
         THEN [error |-> "ParserError", lines |-> << >>]
         ELSE [error |-> "", lines |-> done]
    ELSE LET c == Head(text)
             rest == Tail(text)
         IN  CASE st = "START_FIELD" /\ c = QuoteChar /\ quoting ->
                    Tokenize(rest, quoting, "IN_QUOTED_FIELD", << >>, line, done)
               [] st = "IN_QUOTED_FIELD" /\ c = QuoteChar ->
                    Tokenize(rest, quoting, "QUOTE_IN_QUOTED_FIELD", field, line, done)
               [] st = "IN_QUOTED_FIELD" /\ c # QuoteChar ->
                    Tokenize(rest, quoting, "IN_QUOTED_FIELD", Append(field, c), line, done)
               [] st = "QUOTE_IN_QUOTED_FIELD" /\ c = QuoteChar ->
                    Tokenize(rest, quoting, "IN_QUOTED_FIELD", Append(field, c), line, done)
               [] st # "IN_QUOTED_FIELD" /\ c = Sp ->
                    Tokenize(rest, quoting, "START_FIELD", << >>, Append(line, field), done)
               [] st # "IN_QUOTED_FIELD" /\ c = Nl ->
                    Tokenize(rest, quoting, "START_FIELD", << >>, << >>,
                             Append(done, Append(line, field)))
               [] OTHER ->
                    Tokenize(rest, quoting, "IN_FIELD", Append(field, c), line, done)

\* A field text reads as a number / as a missing value.
IsNumeric(field) == Len(field) = 1 /\ field[1] \in NumericText
IsNa(field) == field = << >> \/ (Len(field) = 1 /\ field[1] \in NaValues)

\* The index column (index_col=0).  Missing-value spellings become NaN
\* (na_filter is on by default); if every other first field reads as a
\* number the column is numeric, otherwise the fields stay strings.
IndexOf(firsts) ==
    LET numeric == \A i \in DOMAIN firsts : IsNumeric(firsts[i]) \/ IsNa(firsts[i])
    IN  [i \in DOMAIN firsts |->
            IF IsNa(firsts[i]) THEN NumLabel(NaN)
            ELSE IF numeric THEN NumLabel(ParseFloat(firsts[i][1]))
            ELSE StrLabel(firsts[i])]

\* One vector cell: a missing field or a missing-value spelling is NaN.
CellOf(fields, j) ==
    IF j > Len(fields) \/ IsNa(fields[j]) THEN NaN ELSE ParseFloat(fields[j][1])

\* The table read from `lines`.  The first line read fixes the number of
\* fields; a later line with more fields is a ParserError, a later line with
\* fewer is filled with NaN.  A file with no line to read is an EmptyDataError.
ReadTable(lines, skiprows, quoting) ==
    LET tk == Tokenize(FileText(SkipRows(lines, skiprows)), quoting,
                       "START_FIELD", << >>, << >>, << >>)
        recs == tk.lines
        width == Len(recs[1])
    IN  IF tk.error # "" THEN [error |-> tk.error, frame |-> NoneMatrix]
        ELSE IF recs = << >> THEN [error |-> "EmptyDataError", frame |-> NoneMatrix]
        ELSE IF \E i \in DOMAIN recs : Len(recs[i]) > width
             THEN [error |-> "ParserError", frame |-> NoneMatrix]
        ELSE [error |-> "",
              frame |-> DataFrame(IndexOf([i \in DOMAIN recs |-> recs[i][1]]),
                                  [i \in DOMAIN recs |->
                                      [j \in 1..(width - 1) |-> CellOf(recs[i], j + 1)]],
                                  width - 1)]

\* Word2Vec._read_embedding without skiprows=1: the header line is read as data.
Word2Vec_read_embedding_NoSkip(lines) == ReadTable(lines, 0, TRUE)

\* Word2Vec._read_embedding: skiprows=1, default quoting.
Word2Vec_read_embedding(lines) == ReadTable(lines, 1, TRUE)

\* Glove._read_embedding: no line skipped, quoting=csv.QUOTE_NONE.
Glove_read_embedding(lines) == ReadTable(lines, 0, FALSE)

----------------------------------------------------------------------------
(* Inputs of the constructors, the queries and the setter *)

RandomScale == 2    \* random_scale = 0.2, in tenths

\* Values np.random.uniform(-scale, scale) can draw: the low end and one inside.
Uniform(scale) == {Float(0 - scale), Float(scale - 1)}

VocabTokens == {"a", "b"}

\* Term indexes: a dict from the terms to the rows 0..N-1, in any order.
VocabDicts ==
    UNION { { v \in [S -> 0..(Cardinality(S) - 1)] : \A x, y \in S : v[x] = v[y] => x = y } :
            S \in SUBSET VocabTokens }

\* What a caller can hand the __getitem__ call: a str, or a list or tuple.
SeqsUpTo(S, n) == UNION { [1..k -> S] : k \in 0..n }
Entities ==
    { [str |-> TRUE, seq |-> <<t>>] : t \in QueryTokens }
        \cup { [str |-> FALSE, seq |-> ts] : ts \in SeqsUpTo(ManyTokens, MaxQuery) }

\* What a caller can hand the matrix setter.
MatrixInstances ==
    { NdArray(<< <<Float(9)>> >>, 1),
      DataFrame(<<StrLabel(<<"oov">>)>>, << <<Float(9)>> >>, 1) }

----------------------------------------------------------------------------
(* The Embedding classes *)

DictVocab(d) == [type |-> "dict", dict |-> d, array |-> << >>]
ArrayVocab(a) == [type |-> "array", dict |-> << >>, array |-> a]

\* A returned array: one vector (ndim 1) or a matrix of rows (ndim 2).
Vec(v) == [error |-> "", key |-> "", ndim |-> 1, rows |-> <<v>>]
Mat(rows) == [error |-> "", key |-> "", ndim |-> 2, rows |-> rows]
Exc(err, key) == [error |-> err, key |-> key, ndim |-> 0, rows |-> << >>]

\* Embedding.__contains__: entity in self._vocab
Contains_(vocab, entity) ==
    IF vocab.type = "dict"
    THEN entity \in DOMAIN vocab.dict
    ELSE \E i \in DOMAIN vocab.array : vocab.array[i] = StrLabel(<<entity>>)

\* RandomInitializedEmbedding._entity_to_vec: self._matrix[self._vocab[entity]]
Random_entity_to_vec(vocab, matrix, entity) ==
    IF entity \notin DOMAIN vocab.dict THEN Exc("KeyError", entity)
    ELSE LET i == vocab.dict[entity]
         IN  CASE matrix.type = "None" -> Exc("TypeError", "")
               [] matrix.type = "ndarray" ->
                    IF i < Len(matrix.rows) THEN Vec(matrix.rows[i + 1])
                    ELSE Exc("IndexError", "")
               [] matrix.type = "DataFrame" ->
                    \* frame[i] selects the column labelled i; the columns are 1..ncols
                    IF i \in 1..matrix.ncols
                    THEN Vec([r \in DOMAIN matrix.rows |-> matrix.rows[r][i]])
                    ELSE Exc("KeyError", "<column>")

\* The positions of a label in an index, in row order.
RECURSIVE Positions(_, _, _)
Positions(index, label, from) ==
    IF from > Len(index) THEN << >>
    ELSE (IF index[from] = label THEN <<from>> ELSE << >>) \o Positions(index, label, from + 1)

\* PretrainedEmbedding._entity_to_vec: self._matrix.loc[entity].values
Pretrained_entity_to_vec(vocab, matrix, entity) ==
    IF matrix.type # "DataFrame" THEN Exc("AttributeError", "")
    ELSE LET at == Positions(matrix.index, StrLabel(<<entity>>), 1)
         IN  CASE Len(at) = 0 -> Exc("KeyError", entity)
               [] Len(at) = 1 -> Vec(matrix.rows[at[1]])
               [] OTHER -> Mat([k \in DOMAIN at |-> matrix.rows[at[k]]])

_entity_to_vec(class, vocab, matrix, entity) ==
    IF class = "RandomInitializedEmbedding"
    THEN Random_entity_to_vec(vocab, matrix, entity)
    ELSE Pretrained_entity_to_vec(vocab, matrix, entity)

\* np.vstack of the arrays, made while the list is built: the first entity
\* whose lookup raises ends the call with that exception.
RECURSIVE VStack(_, _, _, _, _)
VStack(class, vocab, matrix, entities, rows) ==
    IF entities = << >>
    THEN IF rows = << >> \/ \E r \in DOMAIN rows : Len(rows[r]) # Len(rows[1])
         THEN Exc("ValueError", "")
         ELSE Mat(rows)
    ELSE LET one == _entity_to_vec(class, vocab, matrix, Head(entities))
         IN  IF one.error # "" THEN one
             ELSE VStack(class, vocab, matrix, Tail(entities), rows \o one.rows)

\* Embedding.__getitem__ that leaves out the entities it does not know
\* instead of raising for the first of them.
GetItem_SkipUnknown(class, vocab, matrix, entities) ==
    IF entities.str
    THEN _entity_to_vec(class, vocab, matrix, entities.seq[1])
    ELSE VStack(class, vocab, matrix,
                SelectSeq(entities.seq, LAMBDA e : Contains_(vocab, e)), << >>)

\* Embedding.__getitem__
GetItem_(class, vocab, matrix, entities) ==
    IF entities.str
    THEN _entity_to_vec(class, vocab, matrix, entities.seq[1])
    ELSE VStack(class, vocab, matrix, entities.seq, << >>)

\* Embedding.dimension: self._matrix.shape[1]
Dimension_(matrix) ==
    IF matrix.type = "None" THEN Exc("AttributeError", "") ELSE Exc("", "")

Outcome(op, arg, res) ==
    [op |-> op, arg |-> arg, status |-> IF res.error = "" THEN "ok" ELSE res.error,
     key |-> res.key, ndim |-> res.ndim, rows |-> res.rows, bool |-> FALSE, int |-> 0]

----------------------------------------------------------------------------
(* The state machine *)

Init ==
    /\ pc = "new"
    /\ cls = "Embedding"
    /\ file = << >>
    /\ _vocab = DictVocab(<< >>)
    /\ _matrix = NoneMatrix
    /\ replaced = FALSE
    /\ last = Returned("", << >>)

\* RandomInitializedEmbedding(vocab, dimension)
RandomInitializedEmbedding(vocab, dimension) ==
    /\ pc = "new"
    /\ \E rows \in [1..Cardinality(DOMAIN vocab) -> [1..dimension -> Uniform(RandomScale)]] :
          _matrix' = NdArray(rows, dimension)
    /\ _vocab' = DictVocab(vocab)
    /\ cls' = "RandomInitializedEmbedding"
    /\ pc' = "ready"
    /\ last' = Returned("__init__", << >>)
    /\ UNCHANGED <<file, replaced>>

\* PretrainedEmbedding.__init__ after self._matrix = self._read_embedding(path)
Pretrained(class, lines, read) ==
    /\ pc = "new"
    /\ cls' = class
    /\ file' = lines
    /\ IF read.error # ""
       THEN /\ pc' = "failed"
            /\ last' = Raised("__init__", << >>, read.error, "")
            /\ UNCHANGED <<_vocab, _matrix>>
       ELSE /\ pc' = "ready"
            /\ _matrix' = read.frame
            /\ _vocab' = ArrayVocab(read.frame.index)
            /\ last' = Returned("__init__", << >>)
    /\ UNCHANGED replaced

\* Word2Vec(path), the file at path being the header line and then `lines`
Word2Vec(lines) ==
    Pretrained("Word2Vec", lines, Word2Vec_read_embedding(<<HeaderLine>> \o lines))

\* Glove(path), the file at path being `lines`
Glove(lines) ==
    Pretrained("Glove", lines, Glove_read_embedding(lines))

\* emb[entities]
GetItem(entities) ==
    /\ pc = "ready"
    /\ last' = Outcome(IF entities.str THEN "lookup" ELSE "lookup_many", entities.seq,
                       GetItem_(cls, _vocab, _matrix, entities))
    /\ UNCHANGED <<pc, cls, file, _vocab, _matrix, replaced>>

\* entity in emb
Contains(entity) ==
    /\ pc = "ready"
    /\ last' = [Returned("contains", <<entity>>) EXCEPT !.bool = Contains_(_vocab, entity)]
    /\ UNCHANGED <<pc, cls, file, _vocab, _matrix, replaced>>

\* emb.dimension
Dimension ==
    /\ pc = "ready"
    /\ last' = [Outcome("dimension", << >>, Dimension_(_matrix)) EXCEPT !.int = _matrix.ncols]
    /\ UNCHANGED <<pc, cls, file, _vocab, _matrix, replaced>>

\* A matrix setter that also rebuilds the vocabulary from the new matrix's labels.
SetMatrix_Reindex(matrix_instance) ==
    /\ pc = "ready"
    /\ _matrix' = matrix_instance
    /\ _vocab' = ArrayVocab(matrix_instance.index)
    /\ replaced' = TRUE
    /\ last' = Returned("set_matrix", << >>)
    /\ UNCHANGED <<pc, cls, file>>

\* emb.matrix = matrix_instance
SetMatrix(matrix_instance) ==
    /\ pc = "ready"
    /\ _matrix' = matrix_instance
    /\ replaced' = TRUE
    /\ last' = Returned("set_matrix", << >>)
    /\ UNCHANGED <<pc, cls, file, _vocab>>

Next ==
    \/ \E vocab \in VocabDicts, dimension \in 1..MaxDim :
          RandomInitializedEmbedding(vocab, dimension)
    \/ \E lines \in Files : Word2Vec(lines)
    \/ \E lines \in Files : Glove(lines)
    \/ \E entities \in Entities : GetItem(entities)
    \/ \E entity \in QueryTokens : Contains(entity)
    \/ Dimension
    \/ \E matrix_instance \in MatrixInstances : SetMatrix(matrix_instance)

Spec == Init /\ [][Next]_vars

----------------------------------------------------------------------------
(* Vocabulary used by the properties *)

IsPretrained == cls \in {"Word2Vec", "Glove"}

\* The embedding is as its constructor returned it.
AsBuilt == pc = "ready" /\ ~replaced

Known(entity) == Contains_(_vocab, entity)
LookupOf(entity) == _entity_to_vec(cls, _vocab, _matrix, entity)

\* The first entity of a sequence that is not in the embedding.
RECURSIVE FirstUnknown(_)
FirstUnknown(entities) ==
    IF Known(Head(entities)) THEN FirstUnknown(Tail(entities)) ELSE Head(entities)

\* A file's data lines have distinct first fields / the same number of fields.
DistinctTokens(lines) ==
    \A i, j \in DOMAIN lines : lines[i][1] = lines[j][1] => i = j
ConstantWidth(lines) ==
    \A i \in DOMAIN lines : Len(lines[i]) = Len(lines[1])
WellFormed(lines) == DistinctTokens(lines) /\ ConstantWidth(lines)
QuoteFree(lines) ==
    \A i \in DOMAIN lines : \A j \in DOMAIN lines[i] : lines[i][j] # QuoteChar

\* The vector a data line spells.
VectorOf(line) == [j \in 1..(Len(line) - 1) |-> ParseFloat(line[j + 1])]

----------------------------------------------------------------------------
(* C1 *)

\* C1 (as claimed): on an embedding as its constructor returned it, a lookup
\* of a token that the membership test accepts returns one vector, of length
\* dimension.
C1_KnownTokenGivesVector ==
    (AsBuilt /\ last.op = "lookup" /\ Known(last.arg[1]))
        => /\ last.status = "ok"
           /\ last.ndim = 1
           /\ Len(last.rows[1]) = _matrix.ncols

----------------------------------------------------------------------------
(* C2 *)

\* C2 (as claimed): in every state after construction, setter calls included,
\* a lookup of a token that the membership test rejects raises the
\* unknown-token error (KeyError of that token).
C2_UnknownTokenRaises ==
    (pc = "ready" /\ last.op = "lookup" /\ ~Known(last.arg[1]))
        => /\ last.status = "KeyError"
           /\ last.key = last.arg[1]

----------------------------------------------------------------------------
(* C3 *)

\* C3 (as claimed): a lookup of a sequence of k known tokens, k of any
\* length, returns a matrix of k rows and dimension columns whose row j is
\* the vector of token j.
C3_LookupManyStacksInOrder ==
    (AsBuilt /\ last.op = "lookup_many" /\ \A k \in DOMAIN last.arg : Known(last.arg[k]))
        => /\ last.status = "ok"
           /\ last.ndim = 2
           /\ Len(last.rows) = Len(last.arg)
           /\ \A k \in DOMAIN last.arg :
                 /\ LookupOf(last.arg[k]) = Vec(last.rows[k])
                 /\ Len(last.rows[k]) = _matrix.ncols

----------------------------------------------------------------------------
(* C4 *)

----------------------------------------------------------------------------
(* C5 *)

\* C5 (as claimed): a pretrained constructor given a file in which two data
\* lines have the same token raises, and returns no embedding.  (Stated for
\* the files with no double quote, which both readers read alike.)
C5_DuplicateTokenRejected ==
    (IsPretrained /\ pc # "new" /\ QuoteFree(file) /\ ~DistinctTokens(file))
        => pc = "failed"

----------------------------------------------------------------------------
(* C6 *)

\* C6 (as claimed): a pretrained constructor given a file with a data line
\* of more or of fewer fields than the lines before it raises, and no
\* embedding it returns has a row filled with missing values.  (Stated for
\* the files with distinct tokens and no double quote, which both readers
\* read alike.)
C6_FieldCountMismatchRejected ==
    /\ (IsPretrained /\ pc # "new" /\ QuoteFree(file) /\ DistinctTokens(file)
            /\ ~ConstantWidth(file))
          => pc = "failed"
    /\ (IsPretrained /\ AsBuilt /\ QuoteFree(file) /\ DistinctTokens(file))
          => \A i \in DOMAIN _matrix.rows : \A j \in DOMAIN _matrix.rows[i] :
                ~_matrix.rows[i][j].nan

----------------------------------------------------------------------------
(* C7 *)

\* The number of indexed tokens, and the row a token is mapped to.
VocabSize == IF _vocab.type = "dict" THEN Cardinality(DOMAIN _vocab.dict) ELSE Len(_vocab.array)
RowIndices ==
    IF _vocab.type = "dict" THEN {_vocab.dict[t] : t \in DOMAIN _vocab.dict}
    ELSE {i - 1 : i \in DOMAIN _vocab.array}

\* C7 (as claimed): in every state after construction, setter calls
\* included, the index has as many tokens as the matrix has rows, the row
\* indices are 0..N-1, and row i is the vector returned for the token mapped
\* to i.
C7_IndexAndMatrixInLockStep ==
    pc = "ready"
        => /\ VocabSize = Len(_matrix.rows)
           /\ RowIndices = 0..(VocabSize - 1)
           /\ _vocab.type = "dict" =>
                 \A t \in DOMAIN _vocab.dict :
                    LookupOf(t) = Vec(_matrix.rows[_vocab.dict[t] + 1])
           /\ _vocab.type = "array" =>
                 \A i \in DOMAIN _vocab.array :
                    _vocab.array[i].kind = "str" /\ Len(_vocab.array[i].text) = 1
                       => LookupOf(_vocab.array[i].text[1]) = Vec(_matrix.rows[i])

----------------------------------------------------------------------------
(* C8 *)

\* What a caller can observe of two pretrained embeddings is the same.
SameObservations(v1, m1, v2, m2) ==
    /\ Dimension_(m1) = Dimension_(m2) /\ m1.ncols = m2.ncols
    /\ \A t \in QueryTokens : Contains_(v1, t) = Contains_(v2, t)
    /\ \A e \in Entities :
          GetItem_("Word2Vec", v1, m1, e) = GetItem_("Glove", v2, m2, e)

\* The instance in the state and the other reader's instance from the same
\* content (Glove from the content, Word2Vec from the header line and the
\* content) are both refused, or both built and observably the same.
AgreesWithOtherReader ==
    LET other == IF cls = "Word2Vec" THEN Glove_read_embedding(file)
                 ELSE Word2Vec_read_embedding(<<HeaderLine>> \o file)
    IN  /\ (pc = "failed") = (other.error # "")
        /\ pc = "ready" =>
              SameObservations(_vocab, _matrix, ArrayVocab(other.frame.index), other.frame)

\* C8 (as claimed): for every well-formed content, Word2Vec on the header
\* line and the content and Glove on the content alone are observably the
\* same.
C8_ReadersAgree_AsClaimed ==
    (IsPretrained /\ pc # "new" /\ ~replaced /\ WellFormed(file))
        => AgreesWithOtherReader

\* C8 (amended): the same for every well-formed content with no double-quote
\* character.
C8_ReadersAgree ==
    (IsPretrained /\ pc # "new" /\ ~replaced /\ WellFormed(file) /\ QuoteFree(file))
        => AgreesWithOtherReader

\* A Word2Vec instance built from two well-formed lines, a token of the
\* second line looked up.
C8_Witness ==
    /\ cls = "Word2Vec" /\ AsBuilt /\ Len(file) = 2
    /\ WellFormed(file) /\ QuoteFree(file)
    /\ last.op = "lookup" /\ last.status = "ok" /\ last.arg[1] = file[2][1]
    /\ last.rows = <<VectorOf(file[2])>>

----------------------------------------------------------------------------
(* C9 *)

\* C9 (as claimed): a pretrained embedding built from a well-formed file
\* knows the first field of every data line, whatever it spells, and returns
\* that line's vector for it.  (Stated for the files with no double quote,
\* which both readers read alike.)
C9_TokensTakenLiterally ==
    (IsPretrained /\ AsBuilt /\ WellFormed(file) /\ QuoteFree(file))
        => \A i \in DOMAIN file :
              /\ Known(file[i][1])
              /\ LookupOf(file[i][1]) = Vec(VectorOf(file[i]))

----------------------------------------------------------------------------
(* C10 *)

\* C10: a step of a constructed embedding leaves the vocabulary unchanged;
\* a query (lookup, lookup of a sequence, membership test, dimension), raised
\* or returned, leaves the matrix unchanged too; the setter makes the matrix
\* the instance it was given.
C10_OnlySetterChangesMatrix ==
    [][pc = "ready"
          => /\ _vocab' = _vocab
             /\ last'.op \in {"lookup", "lookup_many", "contains", "dimension"}
                   => _matrix' = _matrix
             /\ last'.op = "set_matrix" => _matrix' \in MatrixInstances
             /\ last'.op \in {"lookup", "lookup_many", "contains", "dimension", "set_matrix"}]_vars

\* The setter was called, and a lookup after it raised.
C10_Witness ==
    /\ pc = "ready" /\ replaced
    /\ last.op \in {"lookup", "lookup_many"} /\ last.status # "ok"

====
